---------------------------- MODULE Spec2Model ----------------------------
(***************************************************************************)
(* Request dispatch of the Express servers of the repository.              *)
(*                                                                         *)
(* Three server files exist: src/server.ts (the TypeScript server),        *)
(* src/unnamed/part_001 (its JavaScript predecessor) and                   *)
(* src/unnamed/part_004 (the minimal server with the HTTPS redirect).      *)
(* A process runs one of them; `variant` says which.  The middleware       *)
(* stack is state: server.ts appends to it after a dynamic import settles. *)
(* A request walks the stack synchronously until a layer answers it or     *)
(* suspends on an await.                                                   *)
(*                                                                         *)
(* Spec follows the dispatcher of a process that listens; LifeSpec follows *)
(* the process from its start: the port, the listener, the signals;        *)
(* RenderSpec follows one call of handleRequest.                           *)
(***************************************************************************)
EXTENDS Naturals, Sequences, FiniteSets, TLC

VARIABLES variant, NODE_ENV, REACT_ROUTER_MODE, PORT, proc, stack, reg, reqs, hr

vars == <<variant, NODE_ENV, REACT_ROUTER_MODE, PORT, proc, stack, reg, reqs, hr>>

\* Number of requests the model lets arrive.
MaxReq == 2

\* How long a render is followed, in steps of 1000 ms, and how many Suspense
\* boundaries of a page wait for data.
MaxTicks == 8
MaxBoundaries == 2

Variants == {"server_ts", "part_001", "part_004"}
Envs == {"production", "development"}
Host == "example.com"

\* The requests sent to the server: method, path (as its segments), query
\* string and the x-forwarded-proto header ("none": the header is absent).
Rq(m, segs, q, p) == [method |-> m, segs |-> segs, query |-> q, proto |-> p]

Requests ==
  { Rq("GET", <<"health">>, "", "https"),
    Rq("GET", <<"api", "status">>, "", "http"),
    Rq("GET", <<"build", "app.js">>, "", "http"),
    Rq("GET", <<"build", "app.js">>, "", "https"),
    Rq("GET", <<"build", "missing.js">>, "", "https"),
    Rq("GET", <<>>, "", "none"),
    Rq("GET", <<"about">>, "?tab=1", "http"),
    Rq("GET", <<"middleware-demo">>, "", "https"),
    Rq("OPTIONS", <<"health">>, "", "https"),
    Rq("OPTIONS", <<"build", "app.js">>, "", "none"),
    Rq("OPTIONS", <<>>, "", "https") }

\* Files present under build/client.
ClientFiles == { <<"app.js">> }

\* err.status of an error passed to next(err); 0 stands for an unset status.
Errors ==
  { [message |-> "boom", status |-> 0, stack |-> "at render", set |-> TRUE],
    [message |-> "boom", status |-> 503, stack |-> "", set |-> TRUE] }

NoErr == [message |-> "", status |-> 0, stack |-> "", set |-> FALSE]
\* Values of process.env.PORT and of the expressions computed from it: a
\* string is the sequence of its characters.
Undefined == [t |-> "undefined", n |-> 0, s |-> <<>>]
NaN == [t |-> "NaN", n |-> 0, s |-> <<>>]
Num(n) == [t |-> "number", n |-> n, s |-> <<>>]
Str(s) == [t |-> "string", n |-> 0, s |-> s]

\* PORT as the environment may give it: unset, "8080", "abc", "0".
Ports ==
  { Undefined, Str(<<"8", "0", "8", "0">>), Str(<<"a", "b", "c">>), Str(<<"0">>) }

NoResp == [kind |-> "none", status |-> 0, ctype |-> "", location |-> "",
           error |-> "", stack |-> "", maxAge |-> 0, immutable |-> FALSE,
           links |-> {}, message |-> "", version |-> "", port |-> Undefined]

--------------------------------------------------------------------------
(* The port: Number(process.env.PORT) || 3000, process.env.PORT || 3000 *)

Digits == <<"0", "1", "2", "3", "4", "5", "6", "7", "8", "9">>
IsDigit(c) == \E i \in 1..Len(Digits) : Digits[i] = c
DigitVal(c) == (CHOOSE i \in 1..Len(Digits) : Digits[i] = c) - 1

RECURSIVE DecimalValue(_, _)
DecimalValue(cs, acc) ==
  IF cs = <<>> THEN acc
  ELSE DecimalValue(Tail(cs), acc * 10 + DigitVal(Head(cs)))

\* Number(v): undefined gives NaN, the empty string 0, a string of decimal
\* digits its value, another string NaN.
Number(v) ==
  CASE v.t = "undefined" -> NaN
    [] v.t = "string" ->
         IF \A i \in 1..Len(v.s) : IsDigit(v.s[i])
           THEN Num(DecimalValue(v.s, 0)) ELSE NaN
    [] OTHER -> v

\* v || d
Falsy(v) ==
  \/ v.t \in {"undefined", "NaN"}
  \/ v.t = "number" /\ v.n = 0
  \/ v.t = "string" /\ v.s = <<>>
Or(v, d) == IF Falsy(v) THEN d ELSE v

DefaultPort == 3000

\* server.ts 85 and 366
PortServerTs(env) == Or(Number(env), Num(DefaultPort))

\* part_001 62 and 255, part_004 46
PortJs(env) == Or(env, Num(DefaultPort))

ListenPort(v, env) == IF v = "server_ts" THEN PortServerTs(env) ELSE PortJs(env)

NoSocket == [kind |-> "none", port |-> 0, path |-> <<>>]

\* What app.listen(port) binds: a string that is not a number names a pipe,
\* port 0 asks the system for any free port.
ListenTarget(p) ==
  LET n == Number(p) IN
  CASE p.t = "string" /\ n.t = "NaN" -> [NoSocket EXCEPT !.kind = "pipe", !.path = p.s]
    [] n.n = 0 -> [NoSocket EXCEPT !.kind = "ephemeral"]
    [] OTHER -> [NoSocket EXCEPT !.kind = "tcp", !.port = n.n]

\* The process: starting, listening or exited; its exit status, the startup
\* fault that ended it, the socket bound and the lines it has logged.
ProcStart ==
  [st |-> "starting", code |-> 0, fault |-> "none", bound |-> NoSocket, log |-> <<>>]

\* app.listen(port, callback): the socket is bound and the callback logs.
Listening(p, v, env) ==
  [p EXCEPT !.st = "listening", !.bound = ListenTarget(ListenPort(v, env)),
            !.log = Append(@, "listening")]

--------------------------------------------------------------------------
(* req.path and req.url *)

RECURSIVE PathStr(_)
PathStr(segs) ==
  IF segs = <<>> THEN ""
  ELSE "/" \o Head(segs) \o PathStr(Tail(segs))

ReqPath(rq) == IF rq.segs = <<>> THEN "/" ELSE PathStr(rq.segs)
ReqUrl(rq) == ReqPath(rq) \o rq.query

\* app.use('/build', ...): the mount path matches '/build' and what is below it.
UnderMount(rq, mount) == Len(rq.segs) >= 1 /\ rq.segs[1] = mount

--------------------------------------------------------------------------
(* The middleware stack as registered at startup *)

L(name, opt) == [name |-> name, opt |-> opt]

MorganLayer(env) == L("morgan", IF env = "production" THEN "combined" ELSE "dev")

\* server.ts 105-119
StaticLayerServerTs(env) ==
  L("static", IF env = "production" THEN "immutable-1y" ELSE "default")

\* part_001 78-95 and part_004 25-35
StaticLayerMaxAge(env) ==
  L("static", IF env = "production" THEN "immutable-1y" ELSE "1h")

\* server.ts registering the rendering middleware whatever REACT_ROUTER_MODE.
StackServerTsRenderAtStartup(env, rr) ==
  << L("security", ""), L("compression", ""), L("cors", ""), MorganLayer(env),
     L("health", "number"), L("apistatus", ""), StaticLayerServerTs(env),
     L("timing", ""), L("demo", ""), L("devRender", ""), L("errorMw", "") >>

StackServerTs(env, rr) ==
  << L("security", ""), L("compression", ""), L("cors", ""), MorganLayer(env),
     L("health", "number"), L("apistatus", ""), StaticLayerServerTs(env),
     L("timing", ""), L("demo", "") >>
  \o (IF rr = "production" THEN <<>> ELSE << L("devRender", "") >>)
  \o << L("errorMw", "") >>

StackPart001(env) ==
  << L("security", ""), L("compression", ""), L("cors", ""), MorganLayer(env),
     L("health", "string"), L("apistatus", ""), StaticLayerMaxAge(env),
     L("timing", ""), L("demo", ""), L("devRender", ""), L("errorMw", "") >>

StackPart004(env) ==
  << L("compression", "") >>
  \o (IF env = "production" THEN << L("redirect", "") >> ELSE <<>>)
  \o << StaticLayerMaxAge(env), L("rrAll", env) >>

BuildStack(v, env, rr) ==
  CASE v = "server_ts" -> StackServerTs(env, rr)
    [] v = "part_001" -> StackPart001(env)
    [] v = "part_004" -> StackPart004(env)

--------------------------------------------------------------------------
(* Responses *)

\* res.setHeader(name, value): server.ts 41-44 and 57-59
SecurityHeaders ==
  { <<"X-Content-Type-Options", "nosniff">>,
    <<"X-Frame-Options", "DENY">>,
    <<"X-XSS-Protection", "1; mode=block">>,
    <<"Referrer-Policy", "strict-origin-when-cross-origin">> }

CorsHeaders ==
  { <<"Access-Control-Allow-Origin", "*">>,
    <<"Access-Control-Allow-Methods", "GET, POST, PUT, DELETE, OPTIONS">>,
    <<"Access-Control-Allow-Headers", "Content-Type, Authorization">> }

Plain(kind, status, ctype) ==
  [NoResp EXCEPT !.kind = kind, !.status = status, !.ctype = ctype]

\* The answer to OPTIONS with status 204 instead.
OptionsRespNoContent == Plain("options", 204, "")

\* res.status(200).end()
OptionsResp == Plain("options", 200, "")

\* res.status(200).json(healthData): the port is Number(process.env.PORT) || 3000
\* in server.ts and process.env.PORT || 3000 in part_001.
HealthResp(opt, env) ==
  [Plain("health", 200, "application/json") EXCEPT
     !.port = IF opt = "number" THEN PortServerTs(env) ELSE PortJs(env)]

\* /api/status answering that the service is unavailable.
ApiStatusRespUnavailable ==
  [Plain("apistatus", 503, "application/json") EXCEPT
     !.message = "Server is running", !.version = "1.0.0"]

\* res.status(200).json(statusData)
ApiStatusResp ==
  [Plain("apistatus", 200, "application/json") EXCEPT
     !.message = "Server is running", !.version = "1.0.0"]

\* res.send(`<!DOCTYPE html> ...`) of /middleware-demo
DemoResp == Plain("demo", 200, "text/html")

\* express.static with the options given at registration
StaticResp(opt) ==
  [Plain("static", 200, "application/javascript") EXCEPT
     !.maxAge = CASE opt = "immutable-1y" -> 31536000
                  [] opt = "1h" -> 3600
                  [] OTHER -> 0,
     !.immutable = (opt = "immutable-1y")]

\* res.redirect(`https://${req.header('host')}${req.url}`)
RedirectResp(rq) ==
  [Plain("redirect", 302, "text/plain") EXCEPT
     !.location = "https://" \o Host \o ReqUrl(rq)]

\* The fallback page without its links.
FallbackRespNoLinks == Plain("fallback", 404, "text/html")

\* res.status(404).send(`<!DOCTYPE html> ... fallback page`): the page links
\* to /health, /api/status and /middleware-demo.
FallbackResp ==
  [Plain("fallback", 404, "text/html") EXCEPT
     !.links = {"/health", "/api/status", "/middleware-demo"}]

\* The error handling middleware with the stack added whatever the mode.
ErrorMiddlewareStackAlways(env, err) ==
  LET isProduction == (env = "production") IN
  [Plain("errorJson", IF err.status # 0 THEN err.status ELSE 500, "application/json")
     EXCEPT !.error = IF isProduction THEN "Internal Server Error" ELSE err.message,
            !.stack = err.stack]

\* The error handling middleware: server.ts 341-364, part_001 238-253.
ErrorMiddleware(env, err) ==
  LET isProduction == (env = "production") IN
  [Plain("errorJson", IF err.status # 0 THEN err.status ELSE 500, "application/json")
     EXCEPT !.error = IF isProduction THEN "Internal Server Error" ELSE err.message,
            !.stack = IF ~isProduction /\ err.stack # "" THEN err.stack ELSE ""]

\* Express's own last step, reached when the stack is exhausted: 404 when
\* no error is pending, else the error's status (a 4xx or 5xx one, else 500)
\* as an HTML page that shows the stack unless the app's env is production.
FinalHandler(env, err) ==
  IF ~err.set THEN Plain("final404", 404, "text/html")
  ELSE [Plain("finalError",
              IF err.status >= 400 /\ err.status < 600 THEN err.status ELSE 500,
              "text/html")
          EXCEPT !.error = IF env = "production" THEN "Internal Server Error"
                           ELSE err.message,
                 !.stack = IF env = "production" THEN "" ELSE err.stack]

--------------------------------------------------------------------------
(* One request *)

IdleReq ==
  [st |-> "idle", method |-> "", segs |-> <<>>, query |-> "", proto |-> "",
   pos |-> 0, hdrs |-> {}, timed |-> FALSE, morgan |-> "", sends |-> 0,
   resp |-> NoResp, outcome |-> "", err |-> NoErr, resolved |-> FALSE,
   decided |-> {}, given |-> 0, logged |-> {}]

NewReq(q) ==
  [IdleReq EXCEPT !.st = "walking", !.method = q.method, !.segs = q.segs,
                  !.query = q.query, !.proto = q.proto, !.pos = 1]

\* The fields of a line morgan writes, by format: morgan('dev') and
\* morgan('combined').
MorganFields(fmt) ==
  IF fmt = "dev"
    THEN {"method", "url", "status", "response-time", "content-length"}
    ELSE {"remote-addr", "remote-user", "date", "method", "url", "http-version",
          "status", "content-length", "referrer", "user-agent"}

\* `${req.method} ${req.path} - ${res.statusCode} - ${duration}ms`
TimingFields == {"method", "path", "status", "duration"}

\* The lines written when the response finishes: one by morgan and one by
\* the timing middleware, for a request that passed them.
LogLines(rq) ==
  (IF rq.morgan # "" THEN {MorganFields(rq.morgan)} ELSE {})
  \cup (IF rq.timed THEN {TimingFields} ELSE {})

\* res.send / res.json / res.end / res.redirect: one more response is emitted;
\* the response finishes and the 'finish' listeners log.
Send(rq, resp) ==
  [rq EXCEPT !.st = "done", !.sends = @ + 1, !.resp = resp, !.logged = LogLines(rq)]

Decide(rq, what, isProd) == [rq EXCEPT !.decided = @ \cup {<<what, isProd>>}]

\* express.static answers GET (and HEAD) for a file that exists and calls
\* next() otherwise: its fallthrough option is left at its default.
StaticServes(rq) ==
  /\ rq.method = "GET"
  /\ UnderMount(rq, "build")
  /\ Tail(rq.segs) \in ClientFiles

\* The redirect test answering yes for every request.
NeedsRedirectAlways(rq) == rq.proto = rq.proto

\* part_004 15-21
NeedsRedirect(rq) == rq.proto # "https"

\* app.get(path, ...)
RouteMatches(rq, segs) == rq.method = "GET" /\ rq.segs = segs

\* The layers a request passes from rq.pos on, until one answers or suspends.
\* With an error pending only the error handling middleware is called.
RECURSIVE Walk(_, _, _, _)
Walk(stk, env, rq, err) ==
  IF rq.pos > Len(stk) THEN Send(rq, FinalHandler(env, err))
  ELSE
    LET ly == stk[rq.pos]
        nxt == [rq EXCEPT !.pos = @ + 1]
    IN
    IF err.set THEN
      IF ly.name = "errorMw"
        THEN Send(Decide(rq, "errors", env = "production"), ErrorMiddleware(env, err))
        ELSE Walk(stk, env, nxt, err)
    ELSE
      CASE ly.name = "security" ->
             Walk(stk, env, [nxt EXCEPT !.hdrs = @ \cup SecurityHeaders], err)
        [] ly.name = "compression" -> Walk(stk, env, nxt, err)
        [] ly.name = "cors" ->
             IF rq.method = "OPTIONS"
               THEN Send([rq EXCEPT !.hdrs = @ \cup CorsHeaders], OptionsResp)
               ELSE Walk(stk, env, [nxt EXCEPT !.hdrs = @ \cup CorsHeaders], err)
        [] ly.name = "morgan" ->
             Walk(stk, env,
                  Decide([nxt EXCEPT !.morgan = ly.opt], "logging", ly.opt = "combined"),
                  err)
        [] ly.name = "redirect" ->
             IF NeedsRedirect(rq) THEN Send(rq, RedirectResp(rq))
             ELSE Walk(stk, env, nxt, err)
        [] ly.name = "health" ->
             IF RouteMatches(rq, <<"health">>) THEN Send(rq, HealthResp(ly.opt, PORT))
             ELSE Walk(stk, env, nxt, err)
        [] ly.name = "apistatus" ->
             IF RouteMatches(rq, <<"api", "status">>) THEN Send(rq, ApiStatusResp)
             ELSE Walk(stk, env, nxt, err)
        [] ly.name = "static" ->
             IF StaticServes(rq)
               THEN Send(Decide(rq, "static", ly.opt = "immutable-1y"), StaticResp(ly.opt))
               ELSE Walk(stk, env, nxt, err)
        [] ly.name = "timing" -> Walk(stk, env, [nxt EXCEPT !.timed = TRUE], err)
        [] ly.name = "demo" ->
             IF RouteMatches(rq, <<"middleware-demo">>) THEN Send(rq, DemoResp)
             ELSE Walk(stk, env, nxt, err)
        [] ly.name \in {"devRender", "fallbackRender"} ->
             \* await import('@react-router/serve')
             [Decide(rq, "resolver", FALSE) EXCEPT !.st = "awaitServe", !.resolved = TRUE]
        [] ly.name \in {"rrHandler", "rrAll"} ->
             \* the handler bound at startup is called
             [Decide(rq, "resolver", TRUE) EXCEPT !.st = "handling"]
        [] OTHER -> Walk(stk, env, nxt, err)

--------------------------------------------------------------------------
(* handleRequest of the server entry: app/entry.server.tsx, and            *)
(* unnamed/part_005, which also schedules abort.                           *)

Entries == {"entry_server", "part_005"}

\* part_005 line 9
streamTimeout == 5000

StatusCodes == {200, 404}

\* Where the page waits for data that never arrives: nowhere, in the shell
\* (outside every Suspense boundary) or inside a Suspense boundary.
Waits == {"none", "shell", "boundary"}

HrOff ==
  [entry |-> "", st |-> "off", promise |-> "none", settles |-> 0, given |-> 0,
   status |-> 0, ctype |-> "", waits |-> "none", pending |-> 0,
   timer |-> "none", deadline |-> 0, aborts |-> 0, now |-> 0]

HrIdle(e) == [HrOff EXCEPT !.entry = e, !.st = "idle"]

\* setTimeout(abort, streamTimeout + 1000): part_005 line 48; the entry has none.
ArmTimer(h) ==
  IF h.entry = "part_005"
    THEN [h EXCEPT !.timer = "armed", !.deadline = h.now + streamTimeout + 1000]
    ELSE h

\* handleRequest(request, responseStatusCode, responseHeaders, routerContext):
\* the promise is created, the render starts and, in part_005, abort is scheduled.
HrCall(code, w, n) ==
  /\ hr.st = "idle"
  /\ hr' = ArmTimer([hr EXCEPT !.st = "rendering", !.promise = "pending",
                               !.given = code, !.waits = w, !.pending = n])
  /\ UNCHANGED <<variant, NODE_ENV, REACT_ROUTER_MODE, PORT, proc, stack, reg, reqs>>

\* resolve / reject of the promise: only the first call settles it.
Settle(h, how) ==
  [h EXCEPT !.promise = IF @ = "pending" THEN how ELSE @, !.settles = @ + 1]

\* onShellReady answering 200 whatever status code was given.
OnShellReadyAlways200(h) ==
  [Settle(h, "resolved") EXCEPT !.st = "streaming", !.ctype = "text/html",
                                  !.status = 200]

\* onShellReady: Content-Type is set, the promise resolves with the Response
\* and the body is piped.
OnShellReady(h) ==
  [Settle(h, "resolved") EXCEPT !.st = "streaming", !.ctype = "text/html",
                                  !.status = h.given]

\* What the React Router handler sends when the page renders: the Response
\* handleRequest resolves for the status code the router gave it.
RenderResp(code) ==
  LET h == OnShellReady([HrIdle("entry_server") EXCEPT
                           !.st = "rendering", !.promise = "pending", !.given = code])
  IN Plain("render", h.status, h.ctype)

\* onShellError: the promise is rejected.
OnShellError(h) == [Settle(h, "rejected") EXCEPT !.st = "failed"]

HrShellReady ==
  /\ hr.st = "rendering"
  /\ hr.waits # "shell"
  /\ hr' = OnShellReady(hr)
  /\ UNCHANGED <<variant, NODE_ENV, REACT_ROUTER_MODE, PORT, proc, stack, reg, reqs>>

HrShellError ==
  /\ hr.st = "rendering"
  /\ hr.waits # "shell"
  /\ hr' = OnShellError(hr)
  /\ UNCHANGED <<variant, NODE_ENV, REACT_ROUTER_MODE, PORT, proc, stack, reg, reqs>>

\* The data of one Suspense boundary arrives.
HrBoundaryResolves ==
  /\ hr.st \in {"rendering", "streaming"}
  /\ hr.pending > 0
  /\ hr' = [hr EXCEPT !.pending = @ - 1]
  /\ UNCHANGED <<variant, NODE_ENV, REACT_ROUTER_MODE, PORT, proc, stack, reg, reqs>>

\* Every boundary is flushed: the stream ends.
HrStreamEnds ==
  /\ hr.st = "streaming"
  /\ hr.pending = 0
  /\ hr.waits # "boundary"
  /\ hr' = [hr EXCEPT !.st = "closed"]
  /\ UNCHANGED <<variant, NODE_ENV, REACT_ROUTER_MODE, PORT, proc, stack, reg, reqs>>

\* abort() that leaves a render alone once it is over, as if the timer had
\* been cancelled.
AbortUnlessOver(h) ==
  CASE h.st = "rendering" -> OnShellError([h EXCEPT !.aborts = @ + 1])
    [] h.st = "streaming" -> [h EXCEPT !.aborts = @ + 1, !.st = "closed", !.pending = 0]
    [] OTHER -> h

\* abort(): a render whose shell is not ready fails (onShellError); a stream
\* in progress is ended, its pending boundaries left to the client; a render
\* that is over is not touched.
Abort(h) ==
  LET a == [h EXCEPT !.aborts = @ + 1] IN
  CASE h.st = "rendering" -> OnShellError(a)
    [] h.st = "streaming" -> [a EXCEPT !.st = "closed", !.pending = 0]
    [] OTHER -> a

\* The timer set by setTimeout fires.
HrTimerFires ==
  /\ hr.timer = "armed"
  /\ hr.now >= hr.deadline
  /\ hr' = Abort([hr EXCEPT !.timer = "fired"])
  /\ UNCHANGED <<variant, NODE_ENV, REACT_ROUTER_MODE, PORT, proc, stack, reg, reqs>>

\* 1000 ms pass; a timer that is due fires before more time passes.
HrTick ==
  /\ hr.st \notin {"off", "idle"}
  /\ hr.now < MaxTicks * 1000
  /\ ~(hr.timer = "armed" /\ hr.now >= hr.deadline)
  /\ hr' = [hr EXCEPT !.now = @ + 1000]
  /\ UNCHANGED <<variant, NODE_ENV, REACT_ROUTER_MODE, PORT, proc, stack, reg, reqs>>

RenderInit ==
  /\ variant = "server_ts"
  /\ NODE_ENV = "development"
  /\ REACT_ROUTER_MODE = "development"
  /\ stack = BuildStack(variant, NODE_ENV, REACT_ROUTER_MODE)
  /\ PORT = Undefined
  /\ proc = Listening(ProcStart, variant, PORT)
  /\ reg = "none"
  /\ reqs = [r \in 1..MaxReq |-> IdleReq]
  /\ hr \in {HrIdle(e) : e \in Entries}

RenderNext ==
  \/ \E code \in StatusCodes, w \in Waits, n \in 0..MaxBoundaries : HrCall(code, w, n)
  \/ HrShellReady
  \/ HrShellError
  \/ HrBoundaryResolves
  \/ HrStreamEnds
  \/ HrTimerFires
  \/ HrTick

RenderSpec == RenderInit /\ [][RenderNext]_vars

--------------------------------------------------------------------------
(* The process *)

Reqs == 1..MaxReq

\* The process listens, PORT unset; in server.ts the dynamic import of the
\* handler may still be pending.
Init ==
  /\ variant \in Variants
  /\ NODE_ENV \in Envs
  /\ REACT_ROUTER_MODE \in (IF variant = "server_ts" THEN Envs ELSE {"development"})
  /\ PORT = Undefined
  /\ proc = Listening(ProcStart, variant, PORT)
  /\ stack = BuildStack(variant, NODE_ENV, REACT_ROUTER_MODE)
  /\ reg = IF variant = "server_ts" /\ REACT_ROUTER_MODE = "production"
             THEN "pending" ELSE "none"
  /\ reqs = [r \in Reqs |-> IdleReq]
  /\ hr = HrOff

Process == <<variant, NODE_ENV, REACT_ROUTER_MODE, PORT, proc, hr>>

\* The process has not exited: its callbacks still run.
Alive == proc.st # "exited"

\* server.ts 231-292: the dynamic imports settle and the handler, or the
\* fallback middleware, is appended to the stack.
StartupImportSettle ==
  /\ Alive
  /\ reg = "pending"
  /\ \/ /\ reg' = "handler"
        /\ stack' = Append(stack, L("rrHandler", NODE_ENV))
        /\ proc' = proc
     \/ /\ reg' = "fallback"
        /\ stack' = Append(stack, L("fallbackRender", ""))
        /\ proc' = [proc EXCEPT !.log = Append(@, "Failed to load React Router production handler")]
  /\ UNCHANGED <<variant, NODE_ENV, REACT_ROUTER_MODE, PORT, hr, reqs>>

\* A request arrives and runs through the stack until a layer answers it or
\* suspends on an await.
Arrive(r, q) ==
  /\ proc.st = "listening"
  /\ reqs[r].st = "idle"
  /\ r > 1 => reqs[r - 1].st # "idle"
  /\ reqs' = [reqs EXCEPT ![r] = Walk(stack, NODE_ENV, NewReq(q), NoErr)]
  /\ UNCHANGED <<Process, stack, reg>>

\* catch (error) { res.status(404).send(fallback page) }
Caught(rq, why) == Send([rq EXCEPT !.outcome = why], FallbackResp)

\* await import('@react-router/serve') settles.
ImportServeSettle(r) ==
  /\ Alive
  /\ reqs[r].st = "awaitServe"
  /\ \/ reqs' = [reqs EXCEPT ![r].st = "awaitBuild"]
     \/ reqs' = [reqs EXCEPT ![r] = Caught(@, "importFail")]
  /\ UNCHANGED <<Process, stack, reg>>

\* await import('./build/server/index.js') settles; then createRequestHandler
\* runs and the handler is called, inside the try block.
ImportBuildSettle(r) ==
  /\ Alive
  /\ reqs[r].st = "awaitBuild"
  /\ \/ reqs' = [reqs EXCEPT ![r] = Caught(@, "importFail")]
     \/ reqs' = [reqs EXCEPT ![r] = Caught(@, "createThrows")]
     \/ reqs' = [reqs EXCEPT ![r] = Caught(@, "throwSync")]
     \/ reqs' = [reqs EXCEPT ![r].st = "handling"]
  /\ UNCHANGED <<Process, stack, reg>>

\* next(err) called by the layer the request is suspended in.
NextErr(rq, err) ==
  Walk(stack, NODE_ENV,
       [rq EXCEPT !.pos = @ + 1, !.outcome = "nextErr", !.err = err], err)

\* The handler renders the page with the status code the router chose and
\* sends it.
HandlerResponds(r, code) ==
  /\ Alive
  /\ reqs[r].st = "handling"
  /\ reqs' = [reqs EXCEPT ![r] =
       Send([@ EXCEPT !.outcome = "ok", !.given = code], RenderResp(code))]
  /\ UNCHANGED <<Process, stack, reg>>

\* The handler catches an error of the render and forwards it: next(error).
HandlerForwardsError(r, err) ==
  /\ Alive
  /\ reqs[r].st = "handling"
  /\ reqs' = [reqs EXCEPT ![r] = NextErr(@, err)]
  /\ UNCHANGED <<Process, stack, reg>>

\* The promise the handler returned rejects.  The middleware returned it
\* without awaiting it, so its catch block does not run; Express 4 ignores
\* what a middleware returns, Express 5 passes the rejection to next().
HandlerRejects(r) ==
  /\ Alive
  /\ reqs[r].st = "handling"
  /\ stack[reqs[r].pos].name \in {"devRender", "fallbackRender"}
  /\ \/ reqs' = [reqs EXCEPT ![r].st = "abandoned", ![r].outcome = "reject"]
     \/ reqs' = [reqs EXCEPT ![r] =
          [NextErr(@, [message |-> "boom", status |-> 0, stack |-> "at render",
                       set |-> TRUE]) EXCEPT !.outcome = "reject"]]
  /\ UNCHANGED <<Process, stack, reg>>

\* The render never completes: nothing in the dispatcher bounds it.
HandlerNeverCompletes(r) ==
  /\ Alive
  /\ reqs[r].st = "handling"
  /\ reqs' = [reqs EXCEPT ![r].st = "hung", ![r].outcome = "never"]
  /\ UNCHANGED <<Process, stack, reg>>

Next ==
  \/ StartupImportSettle
  \/ \E r \in Reqs, q \in Requests : Arrive(r, q)
  \/ \E r \in Reqs : ImportServeSettle(r)
  \/ \E r \in Reqs : ImportBuildSettle(r)
  \/ \E r \in Reqs, code \in StatusCodes : HandlerResponds(r, code)
  \/ \E r \in Reqs, e \in Errors : HandlerForwardsError(r, e)
  \/ \E r \in Reqs : HandlerRejects(r)
  \/ \E r \in Reqs : HandlerNeverCompletes(r)

Spec == Init /\ [][Next]_vars

--------------------------------------------------------------------------
(* The life of the process: startup, the listener, termination signals *)

\* The requests sent while the life of the process is followed.
LifeRequests ==
  { Rq("GET", <<"health">>, "", "https"), Rq("GET", <<>>, "", "none") }

Signals == {"SIGTERM", "SIGINT"}

\* process.on('SIGTERM' | 'SIGINT', ...) is registered: server.ts 379-387,
\* part_001 266-275; part_004 registers no handler.
HasSignalHandlers(v) == v \in {"server_ts", "part_001"}

\* The listener is bound and the callback of app.listen logs.
ListenBound ==
  /\ proc.st = "starting"
  /\ proc' = Listening(proc, variant, PORT)
  /\ UNCHANGED <<variant, NODE_ENV, REACT_ROUTER_MODE, PORT, stack, reg, reqs, hr>>

\* The port cannot be bound: the server emits 'error', nothing listens for
\* it, so the error is thrown, printed, and the process exits with status 1.
ListenFails ==
  /\ proc.st = "starting"
  /\ proc' = [proc EXCEPT !.st = "exited", !.code = 1, !.fault = "bind",
                          !.log = Append(@, "uncaught error")]
  /\ UNCHANGED <<variant, NODE_ENV, REACT_ROUTER_MODE, PORT, stack, reg, reqs, hr>>

\* part_004 line 4: the static import of ../build/server/index.js fails, the
\* module does not load and the process exits with status 1.
StaticImportFails ==
  /\ variant = "part_004"
  /\ proc.st = "starting"
  /\ proc' = [proc EXCEPT !.st = "exited", !.code = 1, !.fault = "build",
                          !.log = Append(@, "uncaught error")]
  /\ UNCHANGED <<variant, NODE_ENV, REACT_ROUTER_MODE, PORT, stack, reg, reqs, hr>>

\* The handler of SIGTERM / SIGINT: console.log(...), then process.exit(0).
OnSignal(p, sig) ==
  [p EXCEPT !.log = Append(@, sig \o " received, shutting down gracefully..."),
            !.st = "exited", !.code = 0]

Signal(sig) ==
  /\ Alive
  /\ HasSignalHandlers(variant)
  /\ proc' = OnSignal(proc, sig)
  /\ UNCHANGED <<variant, NODE_ENV, REACT_ROUTER_MODE, PORT, stack, reg, reqs, hr>>

LifeInit ==
  /\ variant \in Variants
  /\ NODE_ENV \in Envs
  /\ REACT_ROUTER_MODE \in (IF variant = "server_ts" THEN Envs ELSE {"development"})
  /\ PORT \in Ports
  /\ proc = ProcStart
  /\ stack = BuildStack(variant, NODE_ENV, REACT_ROUTER_MODE)
  /\ reg = IF variant = "server_ts" /\ REACT_ROUTER_MODE = "production"
             THEN "pending" ELSE "none"
  /\ reqs = [r \in Reqs |-> IdleReq]
  /\ hr = HrOff

LifeNext ==
  \/ ListenBound
  \/ ListenFails
  \/ StaticImportFails
  \/ \E sig \in Signals : Signal(sig)
  \/ StartupImportSettle
  \/ \E r \in Reqs, q \in LifeRequests : Arrive(r, q)
  \/ \E r \in Reqs : ImportServeSettle(r)
  \/ \E r \in Reqs : ImportBuildSettle(r)
  \/ \E r \in Reqs, code \in StatusCodes : HandlerResponds(r, code)
  \/ \E r \in Reqs, e \in Errors : HandlerForwardsError(r, e)
  \/ \E r \in Reqs : HandlerRejects(r)
  \/ \E r \in Reqs : HandlerNeverCompletes(r)

LifeSpec == LifeInit /\ [][LifeNext]_vars

--------------------------------------------------------------------------
(* Properties of the dispatcher *)

Arrived(r) == reqs[r].st # "idle"

\* No code of the server will run for the request again.
Ended(r) == reqs[r].st \in {"done", "hung", "abandoned"}

\* The request is, or was, in the hands of the rendering layer.
ReachedRenderer(r) ==
  \/ reqs[r].st \in {"awaitServe", "awaitBuild", "handling", "hung", "abandoned"}
  \/ reqs[r].outcome # ""

UnderBuild(r) == Len(reqs[r].segs) >= 2 /\ reqs[r].segs[1] = "build"

PlainHttp(r) == Arrived(r) /\ reqs[r].proto # "https"

HttpsUrl(r) == "https://" \o Host \o ReqUrl(reqs[r])

\* C1: every request gets exactly one response: never a second send, and a
\* request whose handling has ended has been answered.  Stated of server.ts,
\* whose branches the claim lists.
C1_ExactlyOneResponse ==
  variant = "server_ts" =>
    \A r \in Reqs :
      /\ reqs[r].sends <= 1
      /\ Ended(r) => reqs[r].sends = 1

\* C2: a request under /build/ is never answered by the rendering responder
\* or its fallback page, and is never handed to them.
C2_BuildNeverRendered ==
  \A r \in Reqs :
    UnderBuild(r) =>
      /\ ~ReachedRenderer(r)
      /\ reqs[r].resp.kind \notin {"render", "fallback"}

\* C3: in production every plain-HTTP request is answered with a redirect to
\* https://<host><url> and no later middleware sees it.
C3_PlainHttpRedirected ==
  \A r \in Reqs :
    (NODE_ENV = "production" /\ PlainHttp(r)) =>
      /\ reqs[r].st = "done"
      /\ reqs[r].resp.kind = "redirect"
      /\ reqs[r].resp.location = HttpsUrl(r)
      /\ ~ReachedRenderer(r)

\* C4: in production a plain-HTTP GET /build/app.js gets the redirect to
\* https://<host>/build/app.js, never the asset.
C4_RedirectBeforeStatic ==
  \A r \in Reqs :
    (/\ NODE_ENV = "production"
     /\ PlainHttp(r)
     /\ reqs[r].method = "GET"
     /\ reqs[r].segs = <<"build", "app.js">>) =>
      /\ reqs[r].resp.kind = "redirect"
      /\ reqs[r].resp.location = "https://" \o Host \o "/build/app.js"

RenderFailures == {"importFail", "createThrows", "throwSync", "nextErr", "reject"}

\* The server has the middleware that answers with the fallback page.
HasFallbackPage == variant \in {"server_ts", "part_001"}

\* The error handling middleware is registered.
HasErrorMw == \E i \in 1..Len(stack) : stack[i].name = "errorMw"

\* C5: whenever the rendering responder fails, the request is answered 404
\* with the fallback page (in the servers that have one).
C5_RenderFailureIsFallback ==
  HasFallbackPage =>
    \A r \in Reqs :
      reqs[r].outcome \in RenderFailures =>
        /\ reqs[r].st = "done"
        /\ reqs[r].resp.kind = "fallback"
        /\ reqs[r].resp.status = 404

\* C6: an error raised while handling a request, and not turned into a
\* response, is answered by the error handling middleware: JSON, with status
\* err.status if set and 500 otherwise (in the servers that register one).
C6_ErrorsReachErrorMiddleware ==
  HasErrorMw =>
    \A r \in Reqs :
      reqs[r].outcome = "nextErr" =>
        /\ reqs[r].st = "done"
        /\ reqs[r].resp.kind = "errorJson"
        /\ reqs[r].resp.status =
             (IF reqs[r].err.status # 0 THEN reqs[r].err.status ELSE 500)

\* C7: the body of the error handling middleware's response: in production
\* the fixed text and no stack; outside production err.message and err.stack.
C7_ErrorBodyByMode ==
  \A r \in Reqs :
    reqs[r].resp.kind = "errorJson" =>
      IF NODE_ENV = "production"
        THEN /\ reqs[r].resp.error = "Internal Server Error"
             /\ reqs[r].resp.error # reqs[r].err.message
             /\ reqs[r].resp.stack = ""
        ELSE /\ reqs[r].resp.error = reqs[r].err.message
             /\ reqs[r].resp.stack = reqs[r].err.stack

\* C7 happens: in production the error handling middleware answers for an
\* error that carries a stack.
C7_Witness ==
  \E r \in Reqs :
    /\ reqs[r].resp.kind = "errorJson"
    /\ NODE_ENV = "production"
    /\ reqs[r].err.stack # ""

\* C9: in production the rendering responder is the one bound at startup,
\* never imported or created for the request; in development it is resolved
\* for each request.
C9_ResponderBinding ==
  \A r \in Reqs :
    ReachedRenderer(r) =>
      (reqs[r].resolved <=> NODE_ENV # "production")

\* C10: the decisions taken for one request agree on whether the process is
\* in production.
C10_OneModePerRequest ==
  \A r \in Reqs :
    \A d1, d2 \in reqs[r].decided : d1[2] = d2[2]

\* C13: a GET under /build/ is answered with the asset, cached as the mode
\* says (production: immutable, max-age one year; development: max-age of
\* at most one hour), or with status 404 when the file does not exist.
\* Stated of the servers the claim cites; a page the renderer renders for
\* the path is not held against the claim, its status being the router's.
C13_BuildAssetOr404 ==
  variant \in {"server_ts", "part_001"} =>
    \A r \in Reqs :
      (Ended(r) /\ reqs[r].method = "GET" /\ UnderBuild(r)) =>
        IF Tail(reqs[r].segs) \in ClientFiles
          THEN /\ reqs[r].resp.kind = "static"
               /\ reqs[r].resp.status = 200
               /\ IF NODE_ENV = "production"
                    THEN reqs[r].resp.immutable /\ reqs[r].resp.maxAge = 365 * 24 * 3600
                    ELSE ~reqs[r].resp.immutable /\ reqs[r].resp.maxAge <= 3600
          ELSE reqs[r].resp.status = 404 \/ reqs[r].resp.kind = "render"

HasApiStatus == \E i \in 1..Len(stack) : stack[i].name = "apistatus"

IsApiStatus(r) == reqs[r].method = "GET" /\ reqs[r].segs = <<"api", "status">>

\* C16: GET /api/status is answered 200 at once, whatever the state of the
\* rendering responder, and two calls carry the same message and version
\* (in the servers that register the route).
C16_ApiStatusStable ==
  HasApiStatus =>
    \A r1, r2 \in Reqs :
      /\ IsApiStatus(r1) =>
           /\ reqs[r1].st = "done"
           /\ reqs[r1].sends = 1
           /\ reqs[r1].resp.status = 200
           /\ reqs[r1].resp.message # ""
           /\ reqs[r1].resp.version # ""
           /\ ~ReachedRenderer(r1)
      /\ (IsApiStatus(r1) /\ IsApiStatus(r2)) =>
           /\ reqs[r1].resp.message = reqs[r2].resp.message
           /\ reqs[r1].resp.version = reqs[r2].resp.version

\* C16 happens: /api/status is answered twice while the rendering responder
\* failed to load.
C16_Witness ==
  /\ reg = "fallback"
  /\ \E r1, r2 \in Reqs :
       r1 # r2 /\ IsApiStatus(r1) /\ IsApiStatus(r2) /\ reqs[r2].resp.status = 200

BaselineHeaders ==
  { <<"X-Content-Type-Options", "nosniff">>, <<"X-Frame-Options", "DENY">>,
    <<"Access-Control-Allow-Origin", "*">> }

\* C18: every response carries X-Content-Type-Options: nosniff,
\* X-Frame-Options: DENY, Access-Control-Allow-Origin: * and a
\* Referrer-Policy that restricts the referrer.
C18_BaselineHeaders ==
  \A r \in Reqs :
    reqs[r].sends >= 1 =>
      /\ BaselineHeaders \subseteq reqs[r].hdrs
      /\ \E h \in reqs[r].hdrs : h[1] = "Referrer-Policy" /\ h[2] # "unsafe-url"

\* A log line that gives method, path, status and elapsed time.
Structured(line) ==
  /\ "method" \in line
  /\ "status" \in line
  /\ line \cap {"path", "url"} # {}
  /\ line \cap {"duration", "response-time"} # {}

\* C19: when a response finishes exactly one log line with method, path,
\* status and elapsed time is written, whichever responder answered.
\* Stated of server.ts.
C19_OneLogLinePerRequest ==
  variant = "server_ts" =>
    \A r \in Reqs :
      reqs[r].st = "done" =>
        Cardinality({l \in reqs[r].logged : Structured(l)}) = 1

SameRequest(r1, r2) ==
  /\ Arrived(r1) /\ Arrived(r2)
  /\ reqs[r1].method = reqs[r2].method
  /\ reqs[r1].segs = reqs[r2].segs
  /\ reqs[r1].query = reqs[r2].query
  /\ reqs[r1].proto = reqs[r2].proto

\* The responder a request was routed to.
Responder(r) == IF ReachedRenderer(r) THEN "renderer" ELSE reqs[r].resp.kind

\* C20: two identical requests are routed to the same responder, whenever
\* they arrive.
C20_SameRequestSameResponder ==
  \A r1, r2 \in Reqs :
    SameRequest(r1, r2) => Responder(r1) = Responder(r2)

\* The CORS middleware is registered, and where.
HasCors == \E i \in 1..Len(stack) : stack[i].name = "cors"
CorsPos == CHOOSE i \in 1..Len(stack) : stack[i].name = "cors"

\* C22: a request with method OPTIONS, whatever its path, is answered by the
\* CORS middleware with status 200 and no body, and no later layer (morgan,
\* routes, static, timing, renderer) sees it (in the servers that register
\* the CORS middleware).
C22_OptionsAnsweredByCors ==
  HasCors =>
    \A r \in Reqs :
      (Arrived(r) /\ reqs[r].method = "OPTIONS") =>
        /\ reqs[r].st = "done"
        /\ reqs[r].sends = 1
        /\ reqs[r].pos = CorsPos
        /\ reqs[r].resp = OptionsResp
        /\ reqs[r].resp.status = 200
        /\ reqs[r].resp.ctype = ""
        /\ ~reqs[r].timed
        /\ reqs[r].morgan = ""
        /\ ~ReachedRenderer(r)

\* C22 happens: an OPTIONS request for an asset and one for a page have both
\* been answered by the CORS middleware.
C22_Witness ==
  /\ HasCors
  /\ \E r1, r2 \in Reqs :
       /\ reqs[r1].method = "OPTIONS" /\ reqs[r1].segs = <<"build", "app.js">>
       /\ reqs[r2].method = "OPTIONS" /\ reqs[r2].segs = <<>>
       /\ reqs[r1].resp.kind = "options" /\ reqs[r2].resp.kind = "options"

\* The redirect middleware is registered, and where.
HasRedirect == \E i \in 1..Len(stack) : stack[i].name = "redirect"
RedirectPos == CHOOSE i \in 1..Len(stack) : stack[i].name = "redirect"

\* C23: a request is redirected only in production and only when its
\* x-forwarded-proto is not 'https': in development the redirect middleware
\* is not registered and nothing is redirected; in production an https
\* request goes on to the next middleware, its response untouched by the
\* redirect middleware.
C23_RedirectOnlyPlainHttpInProduction ==
  /\ NODE_ENV # "production" => ~HasRedirect
  /\ \A r \in Reqs :
       /\ reqs[r].resp.kind = "redirect" =>
            (NODE_ENV = "production" /\ reqs[r].proto # "https")
       /\ (HasRedirect /\ Arrived(r) /\ reqs[r].proto = "https") =>
            /\ reqs[r].pos > RedirectPos
            /\ reqs[r].resp.kind # "redirect"
            /\ reqs[r].resp.location = ""
            /\ reqs[r].hdrs = {}

\* C23 happens: in production one request was redirected and an https
\* request went past the redirect middleware to express.static.
C23_Witness ==
  /\ HasRedirect
  /\ \E r1, r2 \in Reqs :
       /\ reqs[r1].resp.kind = "redirect"
       /\ reqs[r2].proto = "https" /\ reqs[r2].resp.kind = "static"

--------------------------------------------------------------------------
(* Properties of the life of the process *)

\* C11: a startup configuration error (the port cannot be bound, the build
\* cannot be loaded at startup) ends the process with a non-zero status.
C11_StartupErrorIsFatal ==
  (proc.fault # "none" \/ reg = "fallback") =>
    /\ proc.st = "exited"
    /\ proc.code # 0

InFlight(r) == reqs[r].st \in {"awaitServe", "awaitBuild", "handling"}

\* C12: a process ended by SIGTERM or SIGINT has logged the signal last and
\* exited with status 0, and no request was in flight when it exited.
C12_SignalExit ==
  (proc.st = "exited" /\ proc.fault = "none") =>
    /\ proc.code = 0
    /\ \E sig \in Signals :
         proc.log[Len(proc.log)] = sig \o " received, shutting down gracefully..."
    /\ \A r \in Reqs : ~InFlight(r)

\* C14: in development a GET / whose rendering module fails to import is
\* answered once, 404, with the placeholder page that links to /health and
\* /api/status; the failure does not end the process, and the next request
\* can arrive while the process listens.
C14_ImportFailureIsPlaceholder ==
  \A r \in Reqs :
    (/\ NODE_ENV = "development"
     /\ reqs[r].method = "GET" /\ reqs[r].segs = <<>>
     /\ reqs[r].outcome = "importFail") =>
      /\ reqs[r].st = "done"
      /\ reqs[r].sends = 1
      /\ reqs[r].resp.status = 404
      /\ reqs[r].resp.ctype = "text/html"
      /\ {"/health", "/api/status"} \subseteq reqs[r].resp.links
      /\ proc.fault = "none"
      /\ proc.st = "exited" => proc.code = 0
      /\ \A r2 \in Reqs, q \in LifeRequests :
           (/\ proc.st = "listening"
            /\ reqs[r2].st = "idle"
            /\ r2 > 1 => reqs[r2 - 1].st # "idle")
             => ENABLED Arrive(r2, q)

\* C14 happens: in development a GET / got the placeholder page after the
\* import failed, and a request that arrived after it has been answered.
C14_Witness ==
  \E r1, r2 \in Reqs :
    /\ NODE_ENV = "development"
    /\ r1 < r2
    /\ reqs[r1].segs = <<>> /\ reqs[r1].outcome = "importFail"
    /\ reqs[r1].resp.kind = "fallback"
    /\ reqs[r2].resp.kind = "health"

\* The route /health is registered.
HasHealth == \E i \in 1..Len(stack) : stack[i].name = "health"

\* C17: the listener binds the TCP port PORT names, 3000 when PORT is unset,
\* not a number or zero, and /health reports the port bound, as a number.
C17_PortBoundIsPortReported ==
  HasHealth =>
    /\ proc.st = "listening" =>
         /\ proc.bound.kind = "tcp"
         /\ PORT \in {Undefined, Str(<<"a", "b", "c">>), Str(<<"0">>)}
              => proc.bound.port = DefaultPort
         /\ PORT = Str(<<"8", "0", "8", "0">>) => proc.bound.port = 8080
    /\ \A r \in Reqs :
         reqs[r].resp.kind = "health" => reqs[r].resp.port = Num(proc.bound.port)

--------------------------------------------------------------------------
(* Properties of handleRequest *)

\* C8: once the timeout (streamTimeout + 1000 ms) has passed, the render has
\* been aborted or is over: the promise is settled and no stream is open.
C8_RenderBoundedByTimeout ==
  (hr.st \notin {"off", "idle"} /\ hr.now > streamTimeout + 1000) =>
    /\ hr.promise # "pending"
    /\ hr.st # "streaming"

\* C24: the promise handleRequest returns is settled by at most one call of
\* resolve or reject; in part_005 the timer set at the call is never
\* cancelled and calls abort exactly once, streamTimeout + 1000 ms after
\* the render started, whatever the state of the render then.
C24_SettledOnceAbortedOnce ==
  /\ hr.settles <= 1
  /\ hr.promise = "pending" => hr.settles = 0
  /\ hr.promise \in {"resolved", "rejected"} => hr.settles = 1
  /\ (hr.entry = "part_005" /\ hr.st \notin {"off", "idle"}) =>
       /\ hr.timer \in {"armed", "fired"}
       /\ hr.deadline = streamTimeout + 1000
       /\ hr.timer = "armed" => (hr.aborts = 0 /\ hr.now <= hr.deadline)
       /\ hr.timer = "fired" => (hr.aborts = 1 /\ hr.now >= hr.deadline)
       /\ hr.now > hr.deadline => hr.aborts = 1

\* C24 happens: in part_005 a render whose stream had no boundary to wait
\* for is over, the promise resolved, and abort has been called after the
\* delay.
C24_Witness ==
  /\ hr.entry = "part_005"
  /\ hr.st = "closed"
  /\ hr.promise = "resolved"
  /\ hr.waits = "none"
  /\ hr.timer = "fired"
  /\ hr.aborts = 1
  /\ hr.now > streamTimeout + 1000

==========================================================================
